---------------------------- MODULE Spec2Model ----------------------------
(***************************************************************************)
(* Model of src/ai-interface/python/minso-ai.py: the MinSoAI client (token *)
(* store, request executor, domain operations) and the command dispatcher  *)
(* main().                                                                 *)
(*                                                                         *)
(* Representation.                                                         *)
(*  - A Python str that the code reads character by character (the token,  *)
(*    the token file's content, a post's content) is a sequence of         *)
(*    one-character strings.  None, "no such file", "no such key" and "no  *)
(*    such header" are one-element sequences whose element is not a        *)
(*    character, so they are distinct from every str.                      *)
(*  - Every other Python value is an atom: its JSON literal as a TLA+      *)
(*    string ("null" is None, "0", "false", "\"\"", "{}", ...); ABSENT is  *)
(*    the atom of a key the dict does not hold.                            *)
(*  - A JSON object is a function from Fields to atoms; the nested objects *)
(*    user and author are flattened to the keys "user.username", "user.id" *)
(*    and "author.username".                                               *)
(*  - The file system is reliable: reading, writing and removing the token *)
(*    file raise nothing (the code handles no such error).                 *)
(***************************************************************************)
EXTENDS Integers, Sequences, FiniteSets, TLC

VARIABLES file, token, username, user_id, last, granted, reloaded, procs

vars == <<file, token, username, user_id, last, granted, reloaded, procs>>

-----------------------------------------------------------------------------
(* Bounds *)

MaxTokLen == 2
MaxPosts == 1
MaxArgs == 2
NProcs == 2

-----------------------------------------------------------------------------
(* Strings *)

Chars == {"a", " "}
Whitespace == {" "}

None == <<"None">>
NoFile == <<"NoFile">>
AbsentStr == <<"ABSENT">>
NoHeader == <<"NoHeader">>

StrUpTo(n) == UNION {[1..k -> Chars] : k \in 0..n}
Tokens == StrUpTo(MaxTokLen)

RECURSIVE LStrip(_)
LStrip(s) == IF s # <<>> /\ Head(s) \in Whitespace THEN LStrip(Tail(s)) ELSE s

RECURSIVE RStrip(_)
RStrip(s) ==
    IF s # <<>> /\ s[Len(s)] \in Whitespace
    THEN RStrip(SubSeq(s, 1, Len(s) - 1))
    ELSE s

Strip(s) == RStrip(LStrip(s))

\* Python truthiness of an Optional[str]
TruthyStr(t) == t # None /\ t # <<>>


-----------------------------------------------------------------------------
(* Python values as atoms, JSON objects, responses *)

ABSENT == "ABSENT"
PyNone == "null"
Falsy == {"null", "false", "0", "\"\"", "{}", "[]"}

Fields ==
    {"status", "id", "user", "user.username", "user.id", "isLiked",
     "isFollowing", "username", "author", "author.username", "likes",
     "likeCount", "comments", "commentCount", "createdAt", "bio",
     "followersCount", "followingCount", "postsCount", "message"}

EmptyObj == [k \in Fields |-> ABSENT]

\* `k in d`
Has(d, k) == d[k] # ABSENT

\* d.get(k, default)
Get(d, k, default) == IF Has(d, k) THEN d[k] ELSE default

\* bool(v) of an atom
Truthy(v) == v \notin Falsy

\* isinstance(v, dict) of an atom: the empty dict or a non-empty one
IsDict(v) == v \in {"{}", "obj"}

\* mutant: `a if a is not None else b`
OrIfNotNone(a, b) == IF a # PyNone THEN a ELSE b

\* a or b
Or(a, b) == IF Truthy(a) THEN a ELSE b

\* A parsed JSON body: an object (f, plus the str-valued keys token and
\* content), an array of objects (items), or nothing (t = "none").
NoBody == [t |-> "none", f |-> EmptyObj, token |-> AbsentStr,
           content |-> AbsentStr, items |-> <<>>]

Obj(f, tok, content) ==
    [t |-> "obj", f |-> f, token |-> tok, content |-> content, items |-> <<>>]

Arr(items) ==
    [t |-> "arr", f |-> EmptyObj, token |-> AbsentStr, content |-> AbsentStr,
     items |-> items]

\* What the server (or the network) answers to one HTTP request.
\* jsonErrIsRequestException: whether the installed requests library raises
\* its JSON decode error as a RequestException (requests >= 2.27) or as a
\* plain ValueError (older versions).
OkReply(body) == [kind |-> "ok", jsonErrIsRequestException |-> FALSE, body |-> body]
ErrReply(kind, b) == [kind |-> kind, jsonErrIsRequestException |-> b, body |-> NoBody]
NoReply == ErrReply("none", FALSE)

ErrReplies ==
    {ErrReply("http_error", FALSE), ErrReply("conn_error", FALSE),
     ErrReply("bad_json", TRUE), ErrReply("bad_json", FALSE)}

-----------------------------------------------------------------------------
(* Session: the client's fields and the token file *)

World(f, t, u, i) == [file |-> f, token |-> t, username |-> u, user_id |-> i]

\* MinSoAI.__init__ before _load_token
NewFields(f) == World(f, None, PyNone, PyNone)

\* mutant: the token is read without strip()
_load_token_raw(w) ==
    IF w.file # NoFile
    THEN [w EXCEPT !.token = w.file]
    ELSE w

_load_token(w) ==
    IF w.file # NoFile
    THEN [w EXCEPT !.token = Strip(w.file)]
    ELSE w

\* open(token_file, 'w') truncates the file; f.write(token) raises TypeError
\* for a token that is not a str, after the truncation.
_save_token(w, t) ==
    IF t = None
    THEN [w |-> [w EXCEPT !.file = <<>>], err |-> "TypeError"]
    ELSE [w |-> [w EXCEPT !.file = t, !.token = t], err |-> "none"]

\* mutant: the token file is not removed
logout_w_keeps_file(w) == World(w.file, None, PyNone, PyNone)

\* lines 116-121 of logout
logout_w(w) == World(NoFile, None, PyNone, PyNone)

-----------------------------------------------------------------------------
(* Outcome of a call *)

\* kind: "return" | "raise" | "exit"; by: who ended the process;
\* code: the exit status as text ("0", "1"; NoExit while the process runs);
\* sent: whether requests.get/post/put/delete was called;
\* hdr: the Authorization header of that request (the token after "Bearer ").
NoExit == "-"

Result(w, kind, err, by, code, sent, hdr, ret, shown) ==
    [w |-> w, kind |-> kind, err |-> err, by |-> by, code |-> code,
     sent |-> sent, hdr |-> hdr, ret |-> ret, shown |-> shown]

Return(w, r, ret, shown) ==
    Result(w, "return", "none", "none", NoExit, r.sent, r.hdr, ret, shown)

Raise(w, r, err, shown) ==
    Result(w, "raise", err, "none", NoExit, r.sent, r.hdr, NoBody, shown)

\* the request did not return: pass its outcome on
Propagate(w, r) ==
    Result(w, r.kind, r.err, r.by, r.code, r.sent, r.hdr, NoBody, <<>>)

NoRequest == [kind |-> "return", err |-> "none", by |-> "none", code |-> NoExit,
              sent |-> FALSE, hdr |-> NoHeader, body |-> NoBody]

-----------------------------------------------------------------------------
(* Request executor *)

Methods == {"GET", "POST", "PUT", "DELETE", "get", "PATCH"}

Upper(m) == IF m = "get" THEN "GET" ELSE m

Req(kind, err, by, code, sent, hdr, body) ==
    [kind |-> kind, err |-> err, by |-> by, code |-> code, sent |-> sent,
     hdr |-> hdr, body |-> body]

\* mutant: the failure is raised to the caller instead of ending the process
OnRequestExceptionRaises(hdr) ==
    Req("raise", "RequestError", "none", NoExit, TRUE, hdr, NoBody)

\* except requests.exceptions.RequestException: print(...); sys.exit(1)
OnRequestException(hdr) ==
    Req("exit", "RequestException", "_request", "1", TRUE, hdr, NoBody)

\* mutant: `self.token is None` instead of `not self.token`
AuthMissingNoneOnly(tok, auth_required) == auth_required /\ tok = None

\* if auth_required and not self.token
AuthMissing(tok, auth_required) == auth_required /\ ~TruthyStr(tok)

\* mutant: the header is attached only to requests that require auth
AuthHeaderOnlyIfRequired(tok, auth_required) ==
    IF auth_required /\ TruthyStr(tok) THEN tok ELSE NoHeader

\* if self.token: headers["Authorization"] = f"Bearer {self.token}"
AuthHeader(tok, auth_required) == IF TruthyStr(tok) THEN tok ELSE NoHeader

_request(w, method, auth_required, reply) ==
    LET hdr == AuthHeader(w.token, auth_required) IN
    IF AuthMissing(w.token, auth_required)
    THEN Req("raise", "AuthenticationError", "none", NoExit, FALSE, NoHeader, NoBody)
    ELSE IF Upper(method) \notin {"GET", "POST", "PUT", "DELETE"}
    THEN Req("raise", "ValueError", "none", NoExit, FALSE, hdr, NoBody)
    ELSE IF reply.kind \in {"conn_error", "http_error"}
    THEN OnRequestException(hdr)
    ELSE IF reply.kind = "bad_json"
    THEN IF reply.jsonErrIsRequestException
         THEN OnRequestException(hdr)
         ELSE Req("raise", "ValueError", "none", NoExit, TRUE, hdr, NoBody)
    ELSE Req("return", "none", "none", NoExit, TRUE, hdr, reply.body)

-----------------------------------------------------------------------------
(* Domain operations.  Each takes the session w and the server's reply and *)
(* yields a Result.                                                        *)

\* mutant: the marker only has to be present
MarkerTruthyIfPresent(b, marker) == Has(b.f, marker)

\* if response.get(marker): return response / else: raise Exception(...)
MarkerTruthy(b, marker) == Truthy(Get(b.f, marker, PyNone))

\* if marker in response
MarkerPresent(b, marker) == Has(b.f, marker)

\* register and login after the request returned: lines 82-91, 104-112
AuthTail(w, r) ==
    LET b == r.body IN
    IF b.t # "obj" THEN Raise(w, r, "AttributeError", <<>>)
    ELSE IF ~MarkerTruthy(b, "user") THEN Raise(w, r, "ResponseShapeError", <<>>)
    ELSE IF b.token = AbsentStr THEN Raise(w, r, "KeyError", <<>>)
    ELSE LET sv == _save_token(w, b.token)
             w1 == sv.w
             w2 == [w1 EXCEPT !.username = b.f["user.username"]]
             w3 == [w2 EXCEPT !.user_id = b.f["user.id"]]
         IN  IF sv.err # "none" THEN Raise(w1, r, sv.err, <<>>)
             ELSE IF ~IsDict(b.f["user"]) THEN Raise(w1, r, "TypeError", <<>>)
             ELSE IF ~Has(b.f, "user.username") THEN Raise(w1, r, "KeyError", <<>>)
             ELSE IF ~Has(b.f, "user.id") THEN Raise(w2, r, "KeyError", <<>>)
             ELSE Return(w3, r, b, <<>>)

register(w, reply) ==
    LET r == _request(w, "POST", FALSE, reply) IN
    IF r.kind # "return" THEN Propagate(w, r) ELSE AuthTail(w, r)

login(w, reply) ==
    LET r == _request(w, "POST", FALSE, reply) IN
    IF r.kind # "return" THEN Propagate(w, r) ELSE AuthTail(w, r)

logout(w) == Return(logout_w(w), NoRequest, NoBody, <<>>)

GetMarkerTail(w, r, marker) ==
    IF r.body.t # "obj" THEN Raise(w, r, "AttributeError", <<>>)
    ELSE IF MarkerTruthy(r.body, marker) THEN Return(w, r, r.body, <<>>)
    ELSE Raise(w, r, "ResponseShapeError", <<>>)

\* `marker in response` on a list of objects is False
InMarkerTail(w, r, marker) ==
    IF r.body.t = "obj" /\ MarkerPresent(r.body, marker)
    THEN Return(w, r, r.body, <<>>)
    ELSE Raise(w, r, "ResponseShapeError", <<>>)

post(w, reply) ==
    LET r == _request(w, "POST", TRUE, reply) IN
    IF r.kind # "return" THEN Propagate(w, r) ELSE GetMarkerTail(w, r, "id")

comment(w, reply) ==
    LET r == _request(w, "POST", TRUE, reply) IN
    IF r.kind # "return" THEN Propagate(w, r) ELSE GetMarkerTail(w, r, "id")

send_dm(w, reply) ==
    LET r == _request(w, "POST", TRUE, reply) IN
    IF r.kind # "return" THEN Propagate(w, r) ELSE GetMarkerTail(w, r, "id")

like_post(w, reply) ==
    LET r == _request(w, "POST", TRUE, reply) IN
    IF r.kind # "return" THEN Propagate(w, r) ELSE InMarkerTail(w, r, "isLiked")

follow_user(w, reply) ==
    LET r == _request(w, "POST", TRUE, reply) IN
    IF r.kind # "return" THEN Propagate(w, r) ELSE InMarkerTail(w, r, "isFollowing")

health_check(w, reply) ==
    LET r == _request(w, "GET", FALSE, reply) IN
    IF r.kind # "return" THEN Propagate(w, r) ELSE GetMarkerTail(w, r, "status")

-----------------------------------------------------------------------------
(* Display shaping of post-like objects *)

ContentLimit == 100
Ellipsis == <<".", ".", ".">>
Unknown == "\"unknown\""
Unprinted == "UNPRINTED"

\* content[:100] + "..." when len(content) > 100
Truncate(c) ==
    IF Len(c) > ContentLimit THEN SubSeq(c, 1, ContentLimit) \o Ellipsis ELSE c

\* post.get("author", {}).get("username", "unknown") raises AttributeError
\* when author is present and not a dict
AuthorFails(f) == Has(f, "author") /\ ~IsDict(f["author"])

AuthorUsername(f) ==
    IF Has(f, "author") /\ Has(f, "author.username")
    THEN f["author.username"]
    ELSE Unknown

\* post.get("username") or post.get("author", {}).get("username", "unknown")
UsernameFails(f) == ~Truthy(Get(f, "username", PyNone)) /\ AuthorFails(f)
UsernameOf(f) == Or(Get(f, "username", PyNone), AuthorUsername(f))

\* post.get("likes") or post.get("likeCount", 0)
LikesOf(f) == Or(Get(f, "likes", PyNone), Get(f, "likeCount", "0"))

\* post.get("comments") or post.get("commentCount", 0)
CommentsOf(f) == Or(Get(f, "comments", PyNone), Get(f, "commentCount", "0"))

Line(u, l, c, content) ==
    [username |-> u, likes |-> l, comments |-> c, content |-> content]

FullLine(p, content) == Line(UsernameOf(p.f), LikesOf(p.f), CommentsOf(p.f), content)

\* only the first print of the post ran
HalfLine(p, content) == Line(UsernameOf(p.f), Unprinted, Unprinted, content)

\* The for loop of get_posts / search (needId: the second print reads
\* post['id']) and of get_trending (it does not).
RECURSIVE ShowPosts(_, _, _)
ShowPosts(items, needId, shown) ==
    IF items = <<>> THEN [shown |-> shown, err |-> "none"]
    ELSE LET p == Head(items) IN
         IF p.content = AbsentStr THEN [shown |-> shown, err |-> "KeyError"]
         ELSE IF UsernameFails(p.f) THEN [shown |-> shown, err |-> "AttributeError"]
         ELSE IF needId /\ ~Has(p.f, "id")
         THEN [shown |-> Append(shown, HalfLine(p, Truncate(p.content))),
               err |-> "KeyError"]
         ELSE ShowPosts(Tail(items), needId,
                        Append(shown, FullLine(p, Truncate(p.content))))

ListTail(w, r, needId) ==
    IF r.body.t # "arr" THEN Raise(w, r, "ResponseShapeError", <<>>)
    ELSE LET s == ShowPosts(r.body.items, needId, <<>>) IN
         IF s.err # "none" THEN Raise(w, r, s.err, s.shown)
         ELSE Return(w, r, r.body, s.shown)

get_posts(w, reply) ==
    LET r == _request(w, "GET", FALSE, reply) IN
    IF r.kind # "return" THEN Propagate(w, r) ELSE ListTail(w, r, TRUE)

get_trending(w, reply) ==
    LET r == _request(w, "GET", FALSE, reply) IN
    IF r.kind # "return" THEN Propagate(w, r) ELSE ListTail(w, r, FALSE)

search(w, reply) ==
    LET r == _request(w, "GET", FALSE, reply) IN
    IF r.kind # "return" THEN Propagate(w, r) ELSE ListTail(w, r, TRUE)

\* get_post prints the content untruncated, then reads createdAt
GetPostTail(w, r) ==
    LET b == r.body
        p == [f |-> b.f, content |-> b.content]
    IN  IF b.t # "obj" THEN Raise(w, r, "AttributeError", <<>>)
        ELSE IF ~MarkerTruthy(b, "id") THEN Raise(w, r, "ResponseShapeError", <<>>)
        ELSE IF UsernameFails(b.f) THEN Raise(w, r, "AttributeError", <<>>)
        ELSE IF b.content = AbsentStr THEN Raise(w, r, "KeyError", <<>>)
        ELSE IF ~Has(b.f, "createdAt")
        THEN Raise(w, r, "KeyError", <<FullLine(p, b.content)>>)
        ELSE Return(w, r, b, <<FullLine(p, b.content)>>)

get_post(w, reply) ==
    LET r == _request(w, "GET", FALSE, reply) IN
    IF r.kind # "return" THEN Propagate(w, r) ELSE GetPostTail(w, r)

ProfileFields ==
    {"username", "bio", "followersCount", "followingCount", "postsCount",
     "createdAt"}

GetProfileTail(w, r) ==
    IF r.body.t # "obj" THEN Raise(w, r, "AttributeError", <<>>)
    ELSE IF ~MarkerTruthy(r.body, "id") THEN Raise(w, r, "ResponseShapeError", <<>>)
    ELSE IF \E k \in ProfileFields : ~Has(r.body.f, k) THEN Raise(w, r, "KeyError", <<>>)
    ELSE Return(w, r, r.body, <<>>)

\* target = username or self.username
get_profile(w, arg, reply) ==
    LET target == Or(arg, w.username)
        r == _request(w, "GET", FALSE, reply)
    IN  IF ~Truthy(target) THEN Raise(w, NoRequest, "NoTargetError", <<>>)
        ELSE IF r.kind # "return" THEN Propagate(w, r)
        ELSE GetProfileTail(w, r)

\* the notification lines are not modelled, only notification['message']
NotificationsTail(w, r) ==
    IF r.body.t # "arr" THEN Raise(w, r, "ResponseShapeError", <<>>)
    ELSE IF \E i \in 1..Len(r.body.items) : ~Has(r.body.items[i].f, "message")
    THEN Raise(w, r, "KeyError", <<>>)
    ELSE Return(w, r, r.body, <<>>)

get_notifications(w, reply) ==
    LET r == _request(w, "GET", TRUE, reply) IN
    IF r.kind # "return" THEN Propagate(w, r) ELSE NotificationsTail(w, r)

-----------------------------------------------------------------------------
(* Command dispatcher *)

Commands ==
    {"register", "login", "logout", "post", "get-posts", "like", "follow",
     "trending", "search", "profile", "health"}

\* sys.argv[1].lower() on the command words the model feeds in
Lower(c) == IF c = "POST" THEN "post" ELSE IF c = "Health" THEN "health" ELSE c

\* int(sys.argv[2]) succeeds on the argument atoms that are digits
IsInt(a) == a = "\"7\""

\* sys.argv: given = a command word follows the program name, nargs = the
\* number of words after the command, arg = the first of them
Argv(given, cmd, nargs, arg) ==
    [given |-> given, cmd |-> cmd, nargs |-> nargs, arg |-> arg]
NoArgv == Argv(FALSE, "", 0, PyNone)

\* mutant: a malformed command line is an error
UsageRaises(w) == Raise(w, NoRequest, "UsageError", <<>>)

\* print a usage line and return: nothing is called
Usage(w) == Return(w, NoRequest, NoBody, <<>>)

\* the try block of main: lines 379-445
Dispatch(w, argv, reply) ==
    LET command == Lower(argv.cmd) IN
    CASE command = "register" ->
            IF argv.nargs < 2 THEN Usage(w) ELSE register(w, reply)
      [] command = "login" ->
            IF argv.nargs < 2 THEN Usage(w) ELSE login(w, reply)
      [] command = "logout" -> logout(w)
      [] command = "post" ->
            IF argv.nargs < 1 THEN Usage(w) ELSE post(w, reply)
      [] command = "get-posts" ->
            IF argv.nargs > 0 /\ ~IsInt(argv.arg)
            THEN Raise(w, NoRequest, "ValueError", <<>>)
            ELSE get_posts(w, reply)
      [] command = "like" ->
            IF argv.nargs < 1 THEN Usage(w) ELSE like_post(w, reply)
      [] command = "follow" ->
            IF argv.nargs < 1 THEN Usage(w) ELSE follow_user(w, reply)
      [] command = "trending" ->
            IF argv.nargs > 0 /\ ~IsInt(argv.arg)
            THEN Raise(w, NoRequest, "ValueError", <<>>)
            ELSE get_trending(w, reply)
      [] command = "search" ->
            IF argv.nargs < 1 THEN Usage(w) ELSE search(w, reply)
      [] command = "profile" ->
            get_profile(w, IF argv.nargs > 0 THEN argv.arg ELSE PyNone, reply)
      [] command = "health" -> health_check(w, reply)
      [] OTHER -> Usage(w)

\* How the process ends: returning from main is exit status 0; an Exception
\* reaches `except Exception` and sys.exit(1); the SystemExit raised inside
\* _request is not an Exception and passes through with its status.
ExitOf(r) ==
    CASE r.kind = "return" -> [r EXCEPT !.kind = "exit", !.by = "main", !.code = "0"]
      [] r.kind = "raise" -> [r EXCEPT !.kind = "exit", !.by = "main", !.code = "1"]
      [] OTHER -> r

main(f, argv, reply) ==
    IF ~argv.given
    THEN ExitOf(Usage(NewFields(f)))
    ELSE ExitOf(Dispatch(_load_token(NewFields(f)), argv, reply))

-----------------------------------------------------------------------------
(* State machine: one client instance at a time, and the token file.       *)
(* last records the latest call: its inputs, the session before it (pre)   *)
(* and its outcome (res).  granted and reloaded are history: the token of  *)
(* the latest register/login that stored one, and whether the instance has *)
(* read the token file since.                                              *)

Cur == World(file, token, username, user_id)

NoResult == Return(NewFields(NoFile), NoRequest, NoBody, <<>>)

PrevOf(l) == [op |-> l.op, arg |-> l.arg, prefile |-> l.pre.file]
NoPrev == [op |-> "none", arg |-> None, prefile |-> NoFile]

Last(op, arg, method, auth, pre, reply, res, prev, argv) ==
    [op |-> op, arg |-> arg, method |-> method, auth |-> auth, pre |-> pre,
     reply |-> reply, res |-> res, prev |-> prev, argv |-> argv]

NoLast ==
    Last("start", None, "", FALSE, NewFields(NoFile), NoReply, NoResult, NoPrev, NoArgv)

NoProcs == [old |-> NoFile, ps |-> <<>>]

\* the instance is alive until its process has exited
Alive == last.res.kind # "exit"

Set(res) ==
    /\ file' = res.w.file
    /\ token' = res.w.token
    /\ username' = res.w.username
    /\ user_id' = res.w.user_id

\* an operation of the live instance ran with outcome res
Ran(op, auth, reply, res) ==
    /\ Alive
    /\ Set(res)
    /\ last' = Last(op, None, "", auth, Cur, reply, res, NoPrev, NoArgv)
    /\ UNCHANGED <<granted, reloaded, procs>>

Init ==
    /\ file = NoFile
    /\ token = None
    /\ username = PyNone
    /\ user_id = PyNone
    /\ last = NoLast
    /\ granted = None
    /\ reloaded = FALSE
    /\ procs = NoProcs

\* MinSoAI(): a new instance (a new process when the old one has exited)
Construct ==
    LET res == Return(_load_token(NewFields(file)), NoRequest, NoBody, <<>>) IN
    /\ Set(res)
    /\ last' = Last("__init__", None, "", FALSE, NewFields(file), NoReply, res,
                    PrevOf(last), NoArgv)
    /\ reloaded' = TRUE
    /\ UNCHANGED <<granted, procs>>

LoadToken ==
    LET res == Return(_load_token(Cur), NoRequest, NoBody, <<>>) IN
    /\ Alive
    /\ Set(res)
    /\ last' = Last("_load_token", None, "", FALSE, Cur, NoReply, res,
                    PrevOf(last), NoArgv)
    /\ reloaded' = TRUE
    /\ UNCHANGED <<granted, procs>>

SaveToken ==
    \E t \in Tokens :
        LET res == Return(_save_token(Cur, t).w, NoRequest, NoBody, <<>>) IN
        /\ Alive
        /\ Set(res)
        /\ last' = Last("_save_token", t, "", FALSE, Cur, NoReply, res, NoPrev, NoArgv)
        /\ granted' = None
        /\ reloaded' = FALSE
        /\ UNCHANGED procs

Request(Ms, R) ==
    \E method \in Ms, auth \in BOOLEAN, reply \in R :
        LET r == _request(Cur, method, auth, reply)
            res == Result(Cur, r.kind, r.err, r.by, r.code, r.sent, r.hdr, r.body, <<>>)
        IN  /\ Alive
            /\ Set(res)
            /\ last' = Last("_request", None, method, auth, Cur, reply, res, NoPrev, NoArgv)
            /\ UNCHANGED <<granted, reloaded, procs>>

\* the token T of a register/login response that holds a truthy `user` and
\* a str token: the call reaches _save_token(T) (lines 82-83)
Granted(reply) ==
    IF /\ reply.kind = "ok"
       /\ reply.body.t = "obj"
       /\ Truthy(Get(reply.body.f, "user", PyNone))
       /\ reply.body.token \in Tokens
    THEN reply.body.token
    ELSE None

Register(R) ==
    \E reply \in R :
        LET res == register(Cur, reply) IN
        /\ Alive
        /\ Set(res)
        /\ last' = Last("register", None, "POST", FALSE, Cur, reply, res, NoPrev, NoArgv)
        /\ granted' = Granted(reply)
        /\ reloaded' = FALSE
        /\ UNCHANGED procs

Login(R) ==
    \E reply \in R :
        LET res == login(Cur, reply) IN
        /\ Alive
        /\ Set(res)
        /\ last' = Last("login", None, "POST", FALSE, Cur, reply, res, NoPrev, NoArgv)
        /\ granted' = Granted(reply)
        /\ reloaded' = FALSE
        /\ UNCHANGED procs

Logout ==
    LET res == logout(Cur) IN
    /\ Alive
    /\ Set(res)
    /\ last' = Last("logout", None, "", FALSE, Cur, NoReply, res, NoPrev, NoArgv)
    /\ granted' = None
    /\ reloaded' = FALSE
    /\ UNCHANGED procs

Post(R) == \E reply \in R : Ran("post", TRUE, reply, post(Cur, reply))
LikePost(R) == \E reply \in R : Ran("like_post", TRUE, reply, like_post(Cur, reply))
Comment(R) == \E reply \in R : Ran("comment", TRUE, reply, comment(Cur, reply))
FollowUser(R) == \E reply \in R : Ran("follow_user", TRUE, reply, follow_user(Cur, reply))
SendDm(R) == \E reply \in R : Ran("send_dm", TRUE, reply, send_dm(Cur, reply))
GetNotifications(R) ==
    \E reply \in R : Ran("get_notifications", TRUE, reply, get_notifications(Cur, reply))
HealthCheck(R) == \E reply \in R : Ran("health_check", FALSE, reply, health_check(Cur, reply))
GetPosts(R) == \E reply \in R : Ran("get_posts", FALSE, reply, get_posts(Cur, reply))
GetTrending(R) == \E reply \in R : Ran("get_trending", FALSE, reply, get_trending(Cur, reply))
Search(R) == \E reply \in R : Ran("search", FALSE, reply, search(Cur, reply))
GetPost(R) == \E reply \in R : Ran("get_post", FALSE, reply, get_post(Cur, reply))
GetProfile(As, R) ==
    \E arg \in As, reply \in R :
        Ran("get_profile", FALSE, reply, get_profile(Cur, arg, reply))

-----------------------------------------------------------------------------
(* Inputs: the replies fed to the operations *)

With(f, k, v) == [f EXCEPT ![k] = v]

Content(n) == [i \in 1..n |-> "x"]

\* an object holding every field any operation reads
GoodFields ==
    [k \in Fields |->
        CASE k = "status" -> "\"ok\""
          [] k = "id" -> "\"p1\""
          [] k = "user" -> "obj"
          [] k = "user.username" -> "\"bot1\""
          [] k = "user.id" -> "\"u1\""
          [] k = "isLiked" -> "true"
          [] k = "isFollowing" -> "false"
          [] k = "username" -> "\"bob\""
          [] k = "author" -> "obj"
          [] k = "author.username" -> "\"alice\""
          [] k \in {"likes", "likeCount", "comments", "commentCount",
                    "followersCount", "followingCount", "postsCount"} -> "3"
          [] OTHER -> "\"text\""]

GoodBody == Obj(GoodFields, <<"a">>, Content(1))
EmptyBody == Obj(EmptyObj, AbsentStr, AbsentStr)
GoodList == Arr(<<[f |-> GoodFields, content |-> Content(1)]>>)

\* a successful register/login response carrying token t
Welcome(t) == OkReply(Obj(GoodFields, t, AbsentStr))

-----------------------------------------------------------------------------
(* Spec: the token store, the request executor and the authentication gate *)

StoreReplies == {Welcome(t) : t \in Tokens}
GateReplies == {OkReply(GoodBody), ErrReply("conn_error", FALSE)}
ExecReplies == ErrReplies \cup {OkReply(GoodBody)}

Next ==
    \/ Construct
    \/ LoadToken
    \/ SaveToken
    \/ Logout
    \/ Request(Methods, ExecReplies)
    \/ Register(StoreReplies)
    \/ Login({Welcome(<<"a">>), ErrReply("http_error", FALSE)})
    \/ Post(GateReplies)
    \/ LikePost(GateReplies)
    \/ Comment(GateReplies)
    \/ FollowUser(GateReplies)
    \/ SendDm(GateReplies)
    \/ GetNotifications({OkReply(GoodList), ErrReply("conn_error", FALSE)})

Spec == Init /\ [][Next]_vars

-----------------------------------------------------------------------------
(* SpecLogin: register and login against every shape of response, and the  *)
(* requests that follow                                                    *)

\* the `user` values of a register/login response
UserShapes ==
    {With(EmptyObj, "user", u) : u \in {ABSENT, "null", "{}", "\"x\""}}
    \cup {[EmptyObj EXCEPT !["user"] = "obj", !["user.username"] = n, !["user.id"] = i] :
            n \in {ABSENT, "\"bot1\""}, i \in {ABSENT, "\"u1\""}}

\* every shape of user with a missing, a non-str and a str token, and the
\* complete response with every token
AuthReplies ==
    ErrReplies \cup {OkReply(GoodList)}
    \cup {OkReply(Obj(u, t, AbsentStr)) : u \in UserShapes, t \in {AbsentStr, None, <<"a">>}}
    \cup {Welcome(t) : t \in Tokens}

NextLogin ==
    \/ Construct
    \/ LoadToken
    \/ Logout
    \/ Register(AuthReplies)
    \/ Login(AuthReplies)
    \/ Request({"GET", "POST"}, {OkReply(GoodBody)})
    \/ Post({OkReply(GoodBody)})
    \/ HealthCheck({OkReply(GoodBody)})
    \/ GetPosts({OkReply(GoodList)})

SpecLogin == Init /\ [][NextLogin]_vars

-----------------------------------------------------------------------------
(* SpecShape: every domain operation of a logged-in instance against       *)
(* success responses of every shape                                        *)

MarkerValues == {ABSENT, "null", "false", "0", "\"\"", "true", "\"v\""}

\* an object that holds nothing but key k
Only(k, v) == OkReply(Obj(With(EmptyObj, k, v), AbsentStr, AbsentStr))

\* a complete object whose key k is v
GoodBut(k, v) == OkReply(Obj(With(GoodFields, k, v), <<"a">>, Content(1)))

EmptyList == OkReply(Arr(<<>>))

MarkerReplies(k) == {Only(k, v) : v \in MarkerValues} \cup {EmptyList}

\* complete objects with one marker value, or with one field missing
CompleteReplies(k, others) ==
    {GoodBut(k, v) : v \in MarkerValues}
    \cup {GoodBut(o, ABSENT) : o \in others}
    \cup {EmptyList}

SignReplies ==
    {OkReply(Obj(With(GoodFields, "user", u), t, AbsentStr)) :
        u \in (MarkerValues \cup {"{}", "obj"}), t \in {AbsentStr, <<"a">>}}
    \cup {OkReply(Obj(With(GoodFields, o, ABSENT), <<"a">>, AbsentStr)) :
            o \in {"user.username", "user.id"}}
    \cup {EmptyList}

\* post-like objects: every combination of the fields the display reads
DisplayFields ==
    {[EmptyObj EXCEPT !["id"] = "\"p1\"", !["createdAt"] = "\"t\"",
                      !["username"] = u, !["author"] = a[1],
                      !["author.username"] = a[2], !["likes"] = l,
                      !["likeCount"] = lc, !["comments"] = c[1],
                      !["commentCount"] = c[2]] :
        u \in {ABSENT, "\"\"", "\"bob\""},
        a \in {<<ABSENT, ABSENT>>, <<"null", ABSENT>>, <<"obj", ABSENT>>,
               <<"obj", "\"alice\"">>},
        l \in {ABSENT, "0", "3"},
        lc \in {ABSENT, "5"},
        c \in {<<ABSENT, ABSENT>>, <<"0", "4">>, <<"2", ABSENT>>}}

GetPostReplies ==
    CompleteReplies("id", {"createdAt"})
    \cup {OkReply(Obj(GoodFields, AbsentStr, AbsentStr))}
    \cup {OkReply(Obj(f, AbsentStr, Content(ContentLimit + 1))) : f \in DisplayFields}

Item(f, n) == [f |-> f, content |-> Content(n)]

\* the posts of a list response
ListItems ==
    {Item(With(EmptyObj, "id", "\"p1\""), 1),
     Item(With(GoodFields, "username", ABSENT), ContentLimit),
     Item(With(With(GoodFields, "likes", "0"), "likeCount", "5"), ContentLimit + 1),
     Item(With(With(GoodFields, "username", "\"\""), "comments", ABSENT), 1),
     Item(With(With(EmptyObj, "author", "null"), "id", "\"p1\""), 1),
     Item(With(GoodFields, "id", ABSENT), 1),
     [f |-> GoodFields, content |-> AbsentStr]}

ListReplies ==
    {OkReply(Arr(items)) : items \in UNION {[1..n -> ListItems] : n \in 0..MaxPosts}}
    \cup {OkReply(EmptyBody)}

InitShape ==
    /\ file = <<"a">>
    /\ token = <<"a">>
    /\ username = PyNone
    /\ user_id = PyNone
    /\ last = NoLast
    /\ granted = None
    /\ reloaded = TRUE
    /\ procs = NoProcs

NextShape ==
    \/ Register(SignReplies)
    \/ Login(SignReplies)
    \/ HealthCheck(MarkerReplies("status"))
    \/ Post(MarkerReplies("id"))
    \/ Comment(MarkerReplies("id"))
    \/ SendDm(MarkerReplies("id"))
    \/ LikePost(MarkerReplies("isLiked"))
    \/ FollowUser(MarkerReplies("isFollowing"))
    \/ GetPost(GetPostReplies)
    \/ GetProfile({PyNone, "\"bob\""}, CompleteReplies("id", ProfileFields))
    \/ GetPosts(ListReplies)
    \/ GetTrending(ListReplies)
    \/ Search(ListReplies)

SpecShape == InitShape /\ [][NextShape]_vars

-----------------------------------------------------------------------------
(* SpecCLI: command-line invocations, one process each *)

CmdWords == Commands \cup {"POST", "Health", "comment", "bogus"}
ArgWords == {"\"\"", "\"bob\"", "\"7\""}

ArgvSet ==
    {NoArgv}
    \cup {Argv(TRUE, c, 0, PyNone) : c \in CmdWords}
    \cup {Argv(TRUE, c, n, a) : c \in CmdWords, n \in 1..MaxArgs, a \in ArgWords}

CliReplies ==
    {OkReply(GoodBody), OkReply(GoodList), OkReply(EmptyBody),
     ErrReply("http_error", FALSE)}

\* python minso-ai.py <argv>: the fields are those of the process at its end
Main ==
    \E argv \in ArgvSet, reply \in CliReplies :
        LET res == main(file, argv, reply) IN
        /\ Set(res)
        /\ last' = Last("main", None, "", FALSE, NewFields(file), reply, res,
                        NoPrev, argv)
        /\ granted' = None
        /\ reloaded' = TRUE
        /\ UNCHANGED procs

NextCLI == Main

SpecCLI == Init /\ [][NextCLI]_vars

-----------------------------------------------------------------------------
(* SpecConc: processes that write and read the token file concurrently,    *)
(* one file operation per step.  procs.old is the file's content at the    *)
(* start; each process has a position, the token it writes and its         *)
(* in-memory token.                                                        *)

\* tokens as a server issues them: not empty, no surrounding whitespace
ConcTokens == {t \in Tokens : t # <<>> /\ Strip(t) = t}

Proc(pc, op, arg, tok) == [pc |-> pc, op |-> op, arg |-> arg, token |-> tok]

InitConc ==
    /\ file \in {NoFile} \cup ConcTokens
    /\ token = None
    /\ username = PyNone
    /\ user_id = PyNone
    /\ last = NoLast
    /\ granted = None
    /\ reloaded = FALSE
    /\ procs = [old |-> file, ps |-> [p \in 1..NProcs |-> Proc("start", "none", None, None)]]

Step(p, f, q) ==
    /\ file' = f
    /\ procs' = [procs EXCEPT !.ps[p] = q]
    /\ UNCHANGED <<token, username, user_id, last, granted, reloaded>>

\* _save_token line 35: open(token_file, 'w') creates or truncates the file
SaveOpen(p) ==
    \E t \in ConcTokens :
        /\ procs.ps[p].pc = "start"
        /\ Step(p, <<>>, Proc("save_write", "save", t, None))

\* line 36: f.write(token), flushed when the with block closes the file
SaveWrite(p) ==
    /\ procs.ps[p].pc = "save_write"
    /\ Step(p, procs.ps[p].arg, [procs.ps[p] EXCEPT !.pc = "save_set"])

\* line 37: self.token = token
SaveSet(p) ==
    /\ procs.ps[p].pc = "save_set"
    /\ Step(p, file, [procs.ps[p] EXCEPT !.pc = "done", !.token = procs.ps[p].arg])

\* _load_token line 28: os.path.exists(token_file)
LoadExists(p) ==
    /\ procs.ps[p].pc = "start"
    /\ Step(p, file, Proc(IF file # NoFile THEN "load_read" ELSE "done", "load",
                          None, None))

\* lines 29-30: open, read, strip
LoadRead(p) ==
    /\ procs.ps[p].pc = "load_read"
    /\ Step(p, file, [procs.ps[p] EXCEPT !.pc = "done", !.token = Strip(file)])

NextConc ==
    \E p \in 1..NProcs :
        \/ SaveOpen(p)
        \/ SaveWrite(p)
        \/ SaveSet(p)
        \/ LoadExists(p)
        \/ LoadRead(p)

SpecConc == InitConc /\ [][NextConc]_vars

-----------------------------------------------------------------------------
(* Claims checked under Spec *)

AuthOps ==
    {"post", "like_post", "comment", "follow_user", "send_dm", "get_notifications"}

FailureKinds == {"http_error", "conn_error", "bad_json"}

\* C1: an auth-required operation called while the client's token is unset
\* or empty (no token file, an empty or whitespace-only token file, after
\* logout) fails with the authentication error and issues no HTTP request.
C1_AuthBeforeNetwork ==
    (last.op \in AuthOps /\ last.pre.token \in {None, <<>>})
        => /\ last.res.kind = "raise"
           /\ last.res.err = "AuthenticationError"
           /\ ~last.res.sent

\* the token file held only whitespace, the new instance read it, post failed
C1_Witness ==
    /\ last.op \in AuthOps
    /\ last.pre.file = <<" ">>
    /\ last.pre.token = <<>>
    /\ last.res.err = "AuthenticationError"

\* C2 (as stated): _request never ends the process; a non-success status, a
\* network failure or a JSON parse failure is raised to its caller as a
\* request error.
C2_ExecutorNeverExits ==
    last.op = "_request"
        => /\ last.res.kind # "exit"
           /\ (last.res.sent /\ last.reply.kind \in FailureKinds)
                => (last.res.kind = "raise" /\ last.res.err = "RequestError")

\* C2 (amended): on a non-success status or a network failure, and on a JSON
\* parse failure that the HTTP library raises as a RequestException, _request
\* itself ends the process with exit status 1; a JSON parse failure raised as
\* a plain ValueError goes to the caller; _request ends the process in no
\* other case and with no other status.
C2_ExecutorExitsOnTransportFailure ==
    last.op = "_request"
        => /\ (last.res.sent /\ last.reply.kind \in {"http_error", "conn_error"})
                => (last.res.kind = "exit" /\ last.res.by = "_request"
                    /\ last.res.code = "1")
           /\ (last.res.sent /\ last.reply.kind = "bad_json")
                => IF last.reply.jsonErrIsRequestException
                   THEN last.res.kind = "exit" /\ last.res.by = "_request"
                        /\ last.res.code = "1"
                   ELSE last.res.kind = "raise" /\ last.res.err = "ValueError"
           /\ last.res.kind = "exit"
                => (last.res.sent /\ last.reply.kind \in FailureKinds
                    /\ last.res.code = "1")

C2_Witness ==
    /\ last.op = "_request"
    /\ last.reply.kind = "http_error"
    /\ last.res.kind = "exit"
    /\ last.res.by = "_request"

\* r is t without its leading and trailing whitespace
IsStripOf(r, t) ==
    \E i \in 1..(Len(t) + 1), j \in 0..Len(t) :
        /\ i <= j + 1
        /\ r = SubSeq(t, i, j)
        /\ \A k \in 1..(i - 1) : t[k] \in Whitespace
        /\ \A k \in (j + 1)..Len(t) : t[k] \in Whitespace
        /\ r # <<>> => (r[1] \notin Whitespace /\ r[Len(r)] \notin Whitespace)

\* C3 (as stated): _save_token(t), then a new instance: its token is exactly t.
C3_RoundTripExact ==
    (last.op = "__init__" /\ last.prev.op = "_save_token")
        => token = last.prev.arg

\* C3 (amended): _save_token(t), then a new instance: its token is t without
\* its leading and trailing whitespace, hence t itself exactly when t neither
\* starts nor ends with whitespace.
C3_RoundTripStripped ==
    (last.op = "__init__" /\ last.prev.op = "_save_token")
        => /\ IsStripOf(token, last.prev.arg)
           /\ (token = last.prev.arg) <=> IsStripOf(last.prev.arg, last.prev.arg)

C3_Witness ==
    /\ last.op = "__init__"
    /\ last.prev.op = "_save_token"
    /\ last.prev.arg = <<"a", " ">>
    /\ token = <<"a">>

\* C5: logout leaves no token file and token, username and user_id unset,
\* and returns normally whether or not the file existed; a _load_token that
\* follows it (same or new instance) leaves the token unset.
C5_LogoutClears ==
    /\ last.op = "logout"
        => (file = NoFile /\ token = None /\ username = PyNone
            /\ user_id = PyNone /\ last.res.kind = "return")
    /\ (last.op \in {"__init__", "_load_token"} /\ last.prev.op = "logout")
        => (file = NoFile /\ token = None)

\* a logged-in session was logged out, then a new instance loaded the token
C5_Witness ==
    /\ last.op = "__init__"
    /\ last.prev.op = "logout"
    /\ last.prev.prefile # NoFile
    /\ token = None

-----------------------------------------------------------------------------
(* Claims checked under SpecLogin *)

SignOps == {"register", "login"}

\* the calls, other than register and login, that issue a request
RequestOps ==
    {"_request", "post", "like_post", "comment", "follow_user", "send_dm",
     "get_notifications", "health_check", "get_posts", "get_trending",
     "search", "get_post", "get_profile"}

\* the response of the latest call is an object that holds `user` and a str token
HoldsUserAndToken ==
    /\ last.reply.kind = "ok"
    /\ last.reply.body.t = "obj"
    /\ Has(last.reply.body.f, "user")
    /\ last.reply.body.token \in Tokens

\* C4 (as stated): after a register/login whose response contains `user` and
\* a token T, the file and the in-memory token are T, and every later request
\* of that client or of a new one carries Authorization: Bearer T.
C4_BearerAlways ==
    /\ (last.op \in SignOps /\ HoldsUserAndToken)
        => (file = last.reply.body.token /\ token = last.reply.body.token)
    /\ (granted # None /\ last.op \in RequestOps /\ last.res.sent)
        => last.res.hdr = granted

\* C4 (amended): after a register/login whose response holds a truthy `user`
\* and a str token T, the file and the in-memory token are T; every later
\* request (auth required or not) carries Bearer T from the same instance and
\* Bearer strip(T) from an instance that has read the token file since, and no
\* Authorization header when that token is empty.
C4_BearerWhenNonEmpty ==
    /\ (last.op \in SignOps /\ HoldsUserAndToken
        /\ last.reply.body.f["user"] \notin Falsy)
        => (file = last.reply.body.token /\ token = last.reply.body.token)
    /\ (granted # None /\ last.op \in RequestOps /\ last.res.sent)
        => IF reloaded
           THEN IF IsStripOf(<<>>, granted)
                THEN last.res.hdr = NoHeader
                ELSE IsStripOf(last.res.hdr, granted)
           ELSE IF granted = <<>>
                THEN last.res.hdr = NoHeader
                ELSE last.res.hdr = granted

\* a new instance sent a request that needs no auth, with the granted token
C4_Witness ==
    /\ granted = <<"a">>
    /\ reloaded
    /\ last.op \in RequestOps
    /\ ~last.auth
    /\ last.res.sent
    /\ last.res.hdr = <<"a">>

\* C10: a register or login call that does not return normally leaves the
\* token file and the token, username and user_id as they were before it.
C10_AllOrNothing ==
    (last.op \in SignOps /\ last.res.kind # "return")
        => /\ file = last.pre.file
           /\ token = last.pre.token
           /\ username = last.pre.username
           /\ user_id = last.pre.user_id

-----------------------------------------------------------------------------
(* Claims checked under SpecShape *)

TruthMarkerOps ==
    {"health_check", "post", "get_post", "comment", "send_dm", "get_profile",
     "register", "login"}
InMarkerOps == {"like_post", "follow_user"}
MarkerOps == TruthMarkerOps \cup InMarkerOps

MarkerOf(op) ==
    CASE op = "health_check" -> "status"
      [] op \in SignOps -> "user"
      [] op = "like_post" -> "isLiked"
      [] op = "follow_user" -> "isFollowing"
      [] OTHER -> "id"

\* the latest call got a success response that is a JSON object
GotObject ==
    /\ last.op \in MarkerOps
    /\ last.res.sent
    /\ last.reply.kind = "ok"
    /\ last.reply.body.t = "obj"

\* the fields, other than the marker, that the operation reads with [...]
OtherReadsOk(op, b) ==
    CASE op = "get_post" ->
            /\ b.content # AbsentStr
            /\ b.f["createdAt"] # ABSENT
            /\ ~(b.f["username"] \in Falsy \cup {ABSENT}
                 /\ b.f["author"] \notin {ABSENT, "{}", "obj"})
      [] op = "get_profile" -> \A k \in ProfileFields : b.f[k] # ABSENT
      [] op \in SignOps ->
            /\ b.token \in Tokens
            /\ b.f["user"] \in {"{}", "obj"}
            /\ b.f["user.username"] # ABSENT
            /\ b.f["user.id"] # ABSENT
      [] OTHER -> TRUE

\* C6 (as stated): an operation fails with the response-shape error exactly
\* when its marker field is absent (a falsy value counts as present), and
\* otherwise returns the payload unchanged.
C6_ShapeErrorIffAbsent ==
    GotObject
        => LET b == last.reply.body
               absent == b.f[MarkerOf(last.op)] = ABSENT
           IN  /\ (last.res.err = "ResponseShapeError") <=> absent
               /\ (~absent /\ OtherReadsOk(last.op, b))
                    => (last.res.kind = "return" /\ last.res.ret = b)

\* C6 (amended): health_check, post, get_post, comment, send_dm, get_profile,
\* register and login fail with the response-shape error exactly when the
\* marker is absent or falsy; like_post and follow_user exactly when it is
\* absent.  Otherwise the payload is returned unchanged, provided the other
\* fields the operation reads are there.
C6_ShapeErrorIffAbsentOrFalsy ==
    GotObject
        => LET b == last.reply.body
               v == b.f[MarkerOf(last.op)]
               rejected == v = ABSENT \/ (last.op \in TruthMarkerOps /\ v \in Falsy)
           IN  /\ (last.res.err = "ResponseShapeError") <=> rejected
               /\ (~rejected /\ OtherReadsOk(last.op, b))
                    => (last.res.kind = "return" /\ last.res.ret = b)
               /\ last.res.kind = "return" => (~rejected /\ last.res.ret = b)

\* health_check got {"status": 0}
C6_Witness ==
    /\ last.op = "health_check"
    /\ last.reply.body.f["status"] = "0"
    /\ last.res.err = "ResponseShapeError"

ListOps == {"get_posts", "get_trending", "search"}

\* the object displayed as line i of the latest call
ShownObject(i) ==
    IF last.op \in ListOps THEN last.reply.body.items[i].f ELSE last.reply.body.f

Displays == last.op \in ListOps \cup {"get_post"} /\ last.reply.kind = "ok"

\* k1 when present, else k2 when present, else d
ByPresence(f, k1, k2, d) ==
    IF f[k1] # ABSENT THEN f[k1] ELSE IF f[k2] # ABSENT THEN f[k2] ELSE d

\* k1 when present and truthy, else k2 when present, else d
ByTruth(f, k1, k2, d) ==
    IF f[k1] \notin Falsy \cup {ABSENT} THEN f[k1]
    ELSE IF f[k2] # ABSENT THEN f[k2] ELSE d

\* C9 (as stated): the displayed author is `username` when present, else
\* author.username when present, else "unknown"; the displayed like count is
\* `likes` when present, else likeCount when present, else 0; likewise the
\* comment count.
C9_FallbackByPresence ==
    Displays
        => \A i \in 1..Len(last.res.shown) :
            LET f == ShownObject(i)
                e == last.res.shown[i]
            IN  /\ e.username = ByPresence(f, "username", "author.username", Unknown)
                /\ e.likes # Unprinted
                    => /\ e.likes = ByPresence(f, "likes", "likeCount", "0")
                       /\ e.comments = ByPresence(f, "comments", "commentCount", "0")

\* C9 (amended): the first field is used when it is present and truthy; a
\* first field that is absent, null, 0 or "" gives way to the second field
\* when present, else to "unknown" / 0.  A call that returns has displayed
\* every post.
C9_FallbackByTruth ==
    Displays
        => /\ \A i \in 1..Len(last.res.shown) :
                LET f == ShownObject(i)
                    e == last.res.shown[i]
                IN  /\ e.username = ByTruth(f, "username", "author.username", Unknown)
                    /\ e.likes # Unprinted
                        => /\ e.likes = ByTruth(f, "likes", "likeCount", "0")
                           /\ e.comments = ByTruth(f, "comments", "commentCount", "0")
           /\ (last.res.kind = "return" /\ last.op \in ListOps)
                => Len(last.res.shown) = Len(last.reply.body.items)
           /\ (last.res.kind = "return" /\ last.op = "get_post")
                => Len(last.res.shown) = 1

\* a listed post with likes 0 and likeCount 5 was displayed with 5 likes
C9_Witness ==
    /\ last.op = "get_posts"
    /\ Len(last.res.shown) >= 1
    /\ last.reply.body.items[1].f["likes"] = "0"
    /\ last.reply.body.items[1].f["likeCount"] = "5"
    /\ last.res.shown[1].likes = "5"

-----------------------------------------------------------------------------
(* Claims checked under SpecCLI *)

NeedTwoArgs == {"register", "login"}
NeedOneArg == {"post", "POST", "like", "follow", "search"}
KnownWords == Commands \cup {"POST", "Health"}

MissingArgs(argv) ==
    \/ argv.cmd \in NeedTwoArgs /\ argv.nargs < 2
    \/ argv.cmd \in NeedOneArg /\ argv.nargs < 1

\* C8: a known command with missing arguments, an unknown command and no
\* command at all end with exit status 0 and no HTTP request; the exit status
\* is 1 exactly when an error was raised while the command ran.
C8_ExitStatus ==
    last.op = "main"
        => /\ (~last.argv.given \/ last.argv.cmd \notin KnownWords
               \/ MissingArgs(last.argv))
                => (last.res.code = "0" /\ ~last.res.sent)
           /\ (last.res.code = "1") <=> (last.res.err # "none")
           /\ last.res.kind = "exit"
           /\ last.res.code \in {"0", "1"}

\* register with one argument
C8_Witness ==
    /\ last.op = "main"
    /\ last.argv.cmd = "register"
    /\ last.argv.nargs = 1
    /\ last.res.code = "0"
    /\ ~last.res.sent

-----------------------------------------------------------------------------
(* Claims checked under SpecConc *)

\* one process saves, the other loads, and both are done
OneSaverOneLoader(s, l) ==
    /\ procs.ps # <<>>
    /\ s # l
    /\ procs.ps[s].op = "save" /\ procs.ps[s].pc = "done"
    /\ procs.ps[l].op = "load" /\ procs.ps[l].pc = "done"
    /\ \A q \in DOMAIN procs.ps : q \in {s, l} \/ procs.ps[q].pc = "start"

\* C7: with one process in _save_token(new) and another in _load_token, the
\* loader ends with the complete previous token (unset when there was no
\* file) or the complete new one.
C7_AtomicReplace ==
    \A s, l \in DOMAIN procs.ps :
        OneSaverOneLoader(s, l)
            => procs.ps[l].token \in
                {IF procs.old = NoFile THEN None ELSE procs.old, procs.ps[s].arg}

=============================================================================
